---- MODULE Spec2Model ----
(***************************************************************************)
(* A model of mini_bash.c: the read / tokenize / dispatch loop of main,    *)
(* the tokenizer parse_input, the resolver find_command, the formatter     *)
(* int_to_string, and the child process created by fork.                   *)
(*                                                                         *)
(* Characters are their ASCII codes.  C strings are TLA+ sequences of      *)
(* codes (the terminating NUL is implicit); C arrays are functions over    *)
(* 0..n, indexed as in the source.                                         *)
(***************************************************************************)
EXTENDS Integers, Sequences, FiniteSets, Bags, TLC

\* ------------------------------------------------------------------------
\* Program constants (mini_bash.c:16-20) and the characters the code names.
PROMPT == "mini-bash$ "
PROMPT_LEN == 11
BUFFER_SIZE == 1024
MAX_ARGS == 64
MAX_PATH == 512

NUL == 0
TAB == 9
NL == 10
SP == 32
\* NULL pointer / "no index": C pointers into input_buffer are offsets >= 0.
NULL == -1

\* ------------------------------------------------------------------------
\* Bounds of the model.
\* Longest read, counted in items (a word or one separator character).
MaxItems == 3
\* Largest number of tokens on the generated long lines.
MaxTokens == 65
\* Largest number of children the shell process has when main is entered.
MaxInherited == 1
\* Longest value of HOME and longest command name, in characters.
MaxHomeLen == 512
MaxNameLen == 510

\* ------------------------------------------------------------------------
\* Words used on input lines and in the file system.
W_exit == <<101, 120, 105, 116>>
W_cd == <<99, 100>>
W_a == <<97>>
W_ls == <<108, 115>>
W_la == <<45, 108, 97>>
Slash == <<47>>
\* "/bin/" (mini_bash.c:122)
bin_dir == <<47, 98, 105, 110, 47>>
\* A value of the HOME variable: "/h"
HomeDir == <<47, 104>>
\* getenv returns NULL when HOME is not defined.
NoHome == <<NULL>>
\* The directory the shell is started in: "/"
StartDir == <<47>>

RECURSIVE Flatten(_)
Flatten(s) == IF s = <<>> THEN <<>> ELSE Head(s) \o Flatten(Tail(s))

\* A line of k tokens: the word w followed by k-1 arguments "a".
TokLine(w, k) == w \o [i \in 1..(2 * (k - 1)) |-> IF i % 2 = 1 THEN SP ELSE 97]

Items == {W_exit, W_cd, W_a, <<SP>>, <<TAB>>, <<NL>>}
ItemSeqs == UNION {[1..n -> Items] : n \in 1..MaxItems}
ShortData == {Flatten(s) : s \in ItemSeqs}
LongData == {TokLine(w, k) : w \in {W_exit, W_cd, W_a}, k \in (MAX_ARGS - 2)..MaxTokens}
\* "  ls  -la  \n"
SampleData == {<<SP, SP>> \o W_ls \o <<SP, SP>> \o W_la \o <<SP, SP, NL>>}
\* What one read(2) of standard input can deliver (1 to BUFFER_SIZE-1 bytes).
ReadData == {d \in ShortData \cup LongData \cup SampleData : Len(d) <= BUFFER_SIZE - 1}

\* Long values: HOME is "/hh...h" and a command name "aa...a", of n
\* characters each.
Rep(c, n) == [i \in 1..n |-> c]
LongHome(n) == Slash \o Rep(104, n - 1)
LongName(n) == Rep(97, n)
LongHomes == {LongHome(n) : n \in (MAX_PATH - 3)..MaxHomeLen}
LongNames == {LongName(n) : n \in (MAX_PATH - 7)..MaxNameLen}
\* What is available on standard input when read is called: a short or a
\* long command, a line of many tokens, a line longer than the buffer.
LongInput ==
  {w \o <<NL>> : w \in {W_a, W_ls} \cup LongNames}
    \cup LongData \cup {TokLine(W_a, BUFFER_SIZE \div 2 + 1)}

\* File-system contents access(2) and chdir(2) consult.
FsChoices ==
  { {},
    {bin_dir \o W_a, bin_dir \o W_ls},
    {HomeDir \o Slash \o W_a, bin_dir \o W_a, bin_dir \o W_cd,
     HomeDir \o Slash \o W_exit, bin_dir \o W_exit} }
Directories == {W_a, StartDir}
\* Files that exist without execute permission, in every file system.
PlainFiles == {HomeDir \o Slash \o W_ls}
\* A file system with long paths: executables whose paths have MAX_PATH-1
\* characters, an executable under HOME whose path is longer, and a HOME
\* directory of MAX_PATH-2 characters (access(dir, X_OK) succeeds on a
\* directory that may be searched; "HOME/" names the directory).
FsLong ==
  {bin_dir \o LongName(MAX_PATH - 6),
   HomeDir \o Slash \o LongName(MAX_PATH - 4),
   HomeDir \o Slash \o LongName(MAX_PATH - 2),
   LongHome(MAX_PATH - 3) \o Slash \o W_a,
   LongHome(MAX_PATH - 2) \o Slash}
LongFsChoices == FsChoices \cup {FsLong}

\* Exit codes passed to exit(3) by a program, and signals that kill it.
ExitCodes == {0, 7, 255, 256 + 3}
Signals == {9, 15}

VARIABLES
  pc,            \* position of the shell in main's loop
  exit_status,   \* exit status of the shell process once it has terminated
  input_buffer,  \* char input_buffer[BUFFER_SIZE], up to its terminating NUL
  line,          \* the C string in input_buffer when parse_input was entered
  argc,          \* int argc
  argv,          \* char *argv[MAX_ARGS]: offsets into input_buffer
  full_path,     \* char full_path[MAX_PATH], as a C string
  cwd,           \* working directory of the shell process
  home,          \* value of HOME in the environment
  fs,            \* paths that access(path, X_OK) accepts
  sigchld_ign,   \* disposition of SIGCHLD inherited by the shell is SIG_IGN
  child,         \* the process created by fork for the current command, or NoChild
  others,        \* the other children of the shell process, a bag
  trace          \* system calls of the current loop iteration, in order

vars == <<pc, exit_status, input_buffer, line, argc, argv, full_path, cwd,
          home, fs, sigchld_ign, child, others, trace>>

\* ------------------------------------------------------------------------
\* C strings and arrays.

\* The array holding the C string s: s[0..n-1] followed by NUL.
ToBuf(s) == [i \in 0..Len(s) |-> IF i < Len(s) THEN s[i + 1] ELSE NUL]

\* Number of characters of the C string starting at offset p of buf (strlen):
\* the distance to the first NUL.
strlen(buf, p) ==
  CHOOSE k \in 0..Cardinality(DOMAIN buf) :
    /\ buf[p + k] = NUL
    /\ \A j \in 0..(k - 1) : buf[p + j] # NUL

\* The C string starting at offset p of buf.
CStr(buf, p) == [k \in 1..strlen(buf, p) |-> buf[p + k - 1]]

\* Variant: strncmp(a, b, strlen(b)) == 0, which accepts any a that starts
\* with b.
StrEq_prefix(a, b) == Len(a) >= Len(b) /\ SubSeq(a, 1, Len(b)) = b

\* strcmp(a, b) == 0 for two C strings.
StrEq(a, b) == a = b

\* Arrays that hold nothing of the current iteration.
NoBuf == [i \in 0..0 |-> NUL]
NoArgv == [i \in 0..0 |-> NULL]

\* ------------------------------------------------------------------------
\* parse_input (mini_bash.c:38-69).
\* The state of the function: its locals, and how it was left: "loop" while
\* the for loop runs, "end" once the loop condition failed, "ret" once the
\* return of line 55 was taken.
ParseStart(input) ==
  [at |-> "loop", input |-> input, argc |-> 0, in_token |-> 0, argv |-> <<>>]

\* Variant: only the space separates tokens.
parse_step_spaceonly(st, i) ==
  IF st.at # "loop" THEN st
  ELSE IF st.input[i] = NUL THEN [st EXCEPT !.at = "end"]
  ELSE IF st.input[i] = SP
  THEN [st EXCEPT !.input[i] = NUL, !.in_token = 0]
  ELSE IF st.in_token = 0
  THEN IF st.argc >= MAX_ARGS - 1
       THEN [st EXCEPT !.at = "ret"]
       ELSE [st EXCEPT !.argv = st.argv @@ (st.argc :> i),
                       !.argc = st.argc + 1, !.in_token = 1]
  ELSE st

\* Variant: the limit test leaves no room for the NULL terminator.
parse_step_offbyone(st, i) ==
  IF st.at # "loop" THEN st
  ELSE IF st.input[i] = NUL THEN [st EXCEPT !.at = "end"]
  ELSE IF st.input[i] = SP \/ st.input[i] = TAB
  THEN [st EXCEPT !.input[i] = NUL, !.in_token = 0]
  ELSE IF st.in_token = 0
  THEN IF st.argc >= MAX_ARGS
       THEN [st EXCEPT !.at = "ret"]
       ELSE [st EXCEPT !.argv = st.argv @@ (st.argc :> i),
                       !.argc = st.argc + 1, !.in_token = 1]
  ELSE st

\* One pass of the for loop of lines 43-63 with index i: the loop condition,
\* then the body.
parse_step(st, i) ==
  IF st.at # "loop" THEN st
  ELSE IF st.input[i] = NUL THEN [st EXCEPT !.at = "end"]
  ELSE IF st.input[i] = SP \/ st.input[i] = TAB
  THEN [st EXCEPT !.input[i] = NUL, !.in_token = 0]
  ELSE IF st.in_token = 0
  THEN IF st.argc >= MAX_ARGS - 1
       THEN [st EXCEPT !.at = "ret"]
       ELSE [st EXCEPT !.argv = st.argv @@ (st.argc :> i),
                       !.argc = st.argc + 1, !.in_token = 1]
  ELSE st

\* The passes with index lo, lo+1, ..., hi-1, in this order; once the loop
\* is left no further pass is made.
RECURSIVE parse_loop(_, _, _)
parse_loop(st, lo, hi) ==
  IF hi <= lo THEN st
  ELSE IF hi = lo + 1 THEN parse_step(st, lo)
  ELSE LET mid == (lo + hi) \div 2
           left == parse_loop(st, lo, mid)
       IN  IF left.at # "loop" THEN left ELSE parse_loop(left, mid, hi)

\* The result: the return value, the modified input and argv.  The loop
\* index runs over the array until the loop is left.
parse_input(input) ==
  LET st == parse_loop(ParseStart(input), 0, Cardinality(DOMAIN input))
  IN  IF st.at = "ret"
      THEN [ret |-> -1, input |-> st.input, argv |-> st.argv]
      ELSE [ret |-> st.argc, input |-> st.input,
            argv |-> st.argv @@ (st.argc :> NULL)]

\* The tokens argv[0..n-1] point to, as C strings.
Tokens(buf, av, n) == [k \in 1..n |-> CStr(buf, av[k - 1])]

\* ------------------------------------------------------------------------
\* find_command (mini_bash.c:85-147).

\* Variant: access(path, F_OK), which accepts every file that exists.
access_ok_exists(files, path) == path \in files \cup PlainFiles

\* access(path, X_OK) == 0
access_ok(files, path) == path \in files

\* Variant: the loops test the source character only.
copy_while_nolimit(path, src, limit) == path \o src

\* The copy loops of lines 94-97, 106-108, 126-129 and 133-135: starting
\* with the write index i = Len(path), copy src[0], src[1], ... to
\* full_path[i++] while the source character is not NUL and i < limit.  The
\* loop makes Min(Len(src), limit - i) passes.
copy_while(path, src, limit) ==
  LET room == IF limit > Len(path) THEN limit - Len(path) ELSE 0
      n == IF Len(src) < room THEN Len(src) ELSE room
  IN  path \o SubSeq(src, 1, n)

\* Lines 93-111: HOME + "/" + command.
home_path(command, h) ==
  LET p1 == copy_while(<<>>, h, MAX_PATH - 2)
      p2 == IF Len(p1) < MAX_PATH - 1 THEN Append(p1, 47) ELSE p1
  IN  copy_while(p2, command, MAX_PATH - 1)

\* Lines 122-138: "/bin/" + command.
bin_path(command) ==
  copy_while(copy_while(<<>>, bin_dir, MAX_PATH - 1), command, MAX_PATH - 1)

\* ret is the return value, full_path the buffer on return, tried the
\* paths handed to access, in order.
find_command(command, h, files) ==
  IF h # NoHome /\ access_ok(files, home_path(command, h))
  THEN [ret |-> 1, full_path |-> home_path(command, h),
        tried |-> <<home_path(command, h)>>]
  ELSE [ret |-> IF access_ok(files, bin_path(command)) THEN 1 ELSE 0,
        full_path |-> bin_path(command),
        tried |-> (IF h # NoHome THEN <<home_path(command, h)>> ELSE <<>>)
                   \o <<bin_path(command)>>]

\* ------------------------------------------------------------------------
\* int_to_string (mini_bash.c:159-198): the characters left in buffer.

\* Lines 177-180: the digits of num, least significant first.
RECURSIVE rev_digits(_)
rev_digits(num) ==
  IF num > 0 THEN <<48 + (num % 10)>> \o rev_digits(num \div 10) ELSE <<>>

\* Lines 191-195: reverse the first Len(s) characters.
Reverse(s) == [j \in 1..Len(s) |-> s[Len(s) + 1 - j]]

int_to_string(num) ==
  LET is_negative == num < 0
      n == IF num < 0 THEN -num ELSE num
  IN  IF n = 0 THEN <<48>>
      ELSE Reverse(rev_digits(n) \o (IF is_negative THEN <<45>> ELSE <<>>))

\* ------------------------------------------------------------------------
\* wait(2) status words (sys/wait.h): a normal exit with code c is the word
\* (c mod 256) * 256, death by signal s is the word s (1..127).
ExitedStatus(c) == (c % 256) * 256
WIFEXITED(status) == status % 128 = 0
WEXITSTATUS(status) == (status \div 256) % 256


\* ------------------------------------------------------------------------
\* The system calls of one loop iteration.  by is the calling process, op
\* the call, msg a string literal argument, arg a byte or path argument and
\* r the value returned.
Ev(by, op, msg, arg, r) == [by |-> by, op |-> op, msg |-> msg, arg |-> arg, r |-> r]

\* write(STDOUT_FILENO, <literal>, n) and write(STDOUT_FILENO, <bytes>, n)
WriteLit(msg, r) == Ev("shell", "write", msg, <<>>, r)
WriteStr(bytes, r) == Ev("shell", "write", "", bytes, r)
\* perror(prefix), by either process.
Perror(by, prefix) == Ev(by, "perror", prefix, <<>>, 0)
\* exit(n) or death of a process; r is the status.
Exit(by, n) == Ev(by, "exit", "", <<>>, n)

\* What write(fd, buf, n) can return.
WriteResults(n) == {n, -1}
\* The results of the writes of one message, which the code does not look
\* at: standard output takes all of them or none.
Written(ok, n) == IF ok THEN n ELSE -1

NoChild == [st |-> "none", path |-> <<>>, args |-> <<>>, cwd |-> <<>>, status |-> 0]

\* A child of the shell process as wait(2) sees it: its state, its status
\* word once it is a zombie, and whether the shell created it (own) or the
\* process had it before main started (execve keeps the children of the
\* calling process).
Proc(st, status, own) == [st |-> st, status |-> status, own |-> own]
Inherited == Proc("running", 0, FALSE)
Copies(p, k) == IF k = 0 THEN EmptyBag ELSE [x \in {p} |-> k]
\* The child of the current command among the children of the process.
Own(c) == IF c.st = "none" THEN EmptyBag ELSE Copies(Proc(c.st, c.status, TRUE), 1)

\* The state when main is entered: HOME is one of homes, the file system
\* one of files, SIGCHLD is ignored or not as ign allows, and the process
\* has one of the numbers of children in inherited.
Start(homes, files, ign, inherited) ==
  /\ pc = "prompt"
  /\ exit_status = -1
  /\ input_buffer = NoBuf
  /\ line = <<>>
  /\ argc = 0
  /\ argv = NoArgv
  /\ full_path = <<>>
  /\ cwd = StartDir
  /\ home \in homes
  /\ fs \in files
  /\ sigchld_ign \in ign
  /\ child = NoChild
  /\ others \in {Copies(Inherited, k) : k \in inherited}
  /\ trace = <<>>

\* The shell started by a process without children.
Init == Start({NoHome, HomeDir}, FsChoices, BOOLEAN, {0})

\* mini_bash.c:221-233.  The top of the loop: the buffers of main hold
\* nothing the new iteration reads (each is written before it is read), so
\* they are given their empty values here.
WritePrompt ==
  /\ pc = "prompt"
  /\ \E r \in WriteResults(PROMPT_LEN) :
       IF r = -1
       THEN /\ trace' = <<WriteLit(PROMPT, r), Perror("shell", "write"), Exit("shell", 1)>>
            /\ pc' = "done"
            /\ exit_status' = 1
       ELSE /\ trace' = <<WriteLit(PROMPT, r)>>
            /\ pc' = "read"
            /\ UNCHANGED exit_status
  /\ input_buffer' = NoBuf
  /\ line' = <<>>
  /\ argc' = 0
  /\ argv' = NoArgv
  /\ full_path' = <<>>
  /\ UNCHANGED <<cwd, home, fs, sigchld_ign, others, child>>

\* Variant: a failed read is reported and the loop goes on.
ReadFail_continue ==
  /\ pc = "read"
  /\ trace' = trace \o <<Ev("shell", "read", "", <<>>, -1), Perror("shell", "read")>>
  /\ pc' = "prompt"
  /\ UNCHANGED <<exit_status, input_buffer, line, argc, argv, full_path, cwd, home, fs,
                 sigchld_ign, others, child>>

\* mini_bash.c:239-245: read returns -1.
ReadFail ==
  /\ pc = "read"
  /\ trace' = trace \o <<Ev("shell", "read", "", <<>>, -1), Perror("shell", "read"),
                         Exit("shell", 1)>>
  /\ pc' = "done"
  /\ exit_status' = 1
  /\ UNCHANGED <<input_buffer, line, argc, argv, full_path, cwd, home, fs,
                 sigchld_ign, others, child>>

\* mini_bash.c:239-251 and 384: read returns 0, the loop is left and main
\* returns 0.
ReadEof ==
  /\ pc = "read"
  /\ \E w \in WriteResults(1) :
       trace' = trace \o <<Ev("shell", "read", "", <<>>, 0), WriteStr(<<NL>>, w)>>
  /\ pc' = "done"
  /\ exit_status' = 0
  /\ UNCHANGED <<input_buffer, line, argc, argv, full_path, cwd, home, fs,
                 sigchld_ign, others, child>>

\* mini_bash.c:239-266: of the bytes x that are available, one of data,
\* read delivers the first BUFFER_SIZE-1 at most.
ReadFrom(data) ==
  /\ pc = "read"
  /\ \E x \in data :
       LET d == IF Len(x) <= BUFFER_SIZE - 1 THEN x ELSE SubSeq(x, 1, BUFFER_SIZE - 1)
           n0 == Len(d)
           bytes_read == IF n0 > 0 /\ d[n0] = NL THEN n0 - 1 ELSE n0
           buf == [i \in 0..bytes_read |-> IF i < bytes_read THEN d[i + 1] ELSE NUL]
       IN  /\ input_buffer' = buf
           /\ line' = CStr(buf, 0)
           /\ trace' = Append(trace, Ev("shell", "read", "", d, n0))
           /\ pc' = IF buf[0] = NUL THEN "prompt" ELSE "parse"
  /\ UNCHANGED <<exit_status, argc, argv, full_path, cwd, home, fs, sigchld_ign, others, child>>

ReadLine == ReadFrom(ReadData)

\* mini_bash.c:269-280.
ParseInput ==
  /\ pc = "parse"
  /\ LET res == parse_input(input_buffer)
     IN  /\ argc' = res.ret
         /\ argv' = res.argv
         /\ input_buffer' = res.input
         /\ IF res.ret = -1
            THEN /\ \E w \in WriteResults(26) :
                      trace' = Append(trace, WriteLit("Error: Too many arguments\n", w))
                 /\ pc' = "prompt"
            ELSE IF res.ret = 0
            THEN /\ pc' = "prompt"
                 /\ UNCHANGED trace
            ELSE /\ pc' = "dispatch"
                 /\ UNCHANGED trace
  /\ UNCHANGED <<exit_status, line, full_path, cwd, home, fs, sigchld_ign, others, child>>

\* chdir(path) == 0
chdir_ok(path) == path \in Directories

\* argv[0] and argv[1] as C strings.
Arg(k) == CStr(input_buffer, argv[k])

\* Variant: exit is treated like an empty line.
BuiltinExit_continue ==
  /\ pc = "dispatch"
  /\ StrEq(Arg(0), W_exit)
  /\ pc' = "prompt"
  /\ UNCHANGED <<exit_status, input_buffer, line, argc, argv, full_path, cwd, home, fs,
                 sigchld_ign, others, child, trace>>

\* Variant: exit refuses arguments.
BuiltinExit_noargs ==
  /\ pc = "dispatch"
  /\ StrEq(Arg(0), W_exit)
  /\ IF argc = 1
     THEN /\ pc' = "done"
          /\ exit_status' = 0
          /\ UNCHANGED trace
     ELSE /\ pc' = "prompt"
          /\ trace' = Append(trace, WriteLit("exit: too many arguments\n", 25))
          /\ UNCHANGED exit_status
  /\ UNCHANGED <<input_buffer, line, argc, argv, full_path, cwd, home, fs,
                 sigchld_ign, others, child>>

\* Variant: the length of the argument of exit becomes the exit status.
BuiltinExit_argstatus ==
  /\ pc = "dispatch"
  /\ StrEq(Arg(0), W_exit)
  /\ pc' = "done"
  /\ exit_status' = IF argc >= 2 THEN Len(Arg(1)) ELSE 0
  /\ UNCHANGED <<input_buffer, line, argc, argv, full_path, cwd, home, fs,
                 sigchld_ign, others, child, trace>>

\* mini_bash.c:286-288 and 384.
BuiltinExit ==
  /\ pc = "dispatch"
  /\ StrEq(Arg(0), W_exit)
  /\ pc' = "done"
  /\ exit_status' = 0
  /\ UNCHANGED <<input_buffer, line, argc, argv, full_path, cwd, home, fs,
                 sigchld_ign, others, child, trace>>

\* Variant: cd without argument goes to the start directory.
BuiltinCd_home ==
  /\ pc = "dispatch"
  /\ ~StrEq(Arg(0), W_exit)
  /\ StrEq(Arg(0), W_cd)
  /\ IF argc < 2
     THEN /\ trace' = Append(trace, Ev("shell", "chdir", "", StartDir, 0))
          /\ cwd' = StartDir
     ELSE IF chdir_ok(Arg(1))
     THEN /\ trace' = Append(trace, Ev("shell", "chdir", "", Arg(1), 0))
          /\ cwd' = Arg(1)
     ELSE /\ trace' = trace \o <<Ev("shell", "chdir", "", Arg(1), -1), Perror("shell", "cd")>>
          /\ UNCHANGED cwd
  /\ pc' = "prompt"
  /\ UNCHANGED <<exit_status, input_buffer, line, argc, argv, full_path, home, fs,
                 sigchld_ign, others, child>>

\* Variant: the shell takes the argument for its directory although chdir
\* failed.
BuiltinCd_always ==
  /\ pc = "dispatch"
  /\ ~StrEq(Arg(0), W_exit)
  /\ StrEq(Arg(0), W_cd)
  /\ IF argc < 2
     THEN /\ \E w \in WriteResults(21) :
               trace' = Append(trace, WriteLit("cd: missing argument\n", w))
          /\ UNCHANGED cwd
     ELSE IF chdir_ok(Arg(1))
     THEN /\ trace' = Append(trace, Ev("shell", "chdir", "", Arg(1), 0))
          /\ cwd' = Arg(1)
     ELSE /\ trace' = trace \o <<Ev("shell", "chdir", "", Arg(1), -1), Perror("shell", "cd")>>
          /\ cwd' = Arg(1)
  /\ pc' = "prompt"
  /\ UNCHANGED <<exit_status, input_buffer, line, argc, argv, full_path, home, fs,
                 sigchld_ign, others, child>>

\* mini_bash.c:292-307.
BuiltinCd ==
  /\ pc = "dispatch"
  /\ ~StrEq(Arg(0), W_exit)
  /\ StrEq(Arg(0), W_cd)
  /\ IF argc < 2
     THEN /\ \E w \in WriteResults(21) :
               trace' = Append(trace, WriteLit("cd: missing argument\n", w))
          /\ UNCHANGED cwd
     ELSE IF chdir_ok(Arg(1))
     THEN /\ trace' = Append(trace, Ev("shell", "chdir", "", Arg(1), 0))
          /\ cwd' = Arg(1)
     ELSE /\ trace' = trace \o <<Ev("shell", "chdir", "", Arg(1), -1), Perror("shell", "cd")>>
          /\ UNCHANGED cwd
  /\ pc' = "prompt"
  /\ UNCHANGED <<exit_status, input_buffer, line, argc, argv, full_path, home, fs,
                 sigchld_ign, others, child>>

\* The access calls find_command made, as events.
AccessEvents(res, files) ==
  [k \in 1..Len(res.tried) |->
     Ev("shell", "access", "", res.tried[k],
        IF access_ok(files, res.tried[k]) THEN 0 ELSE -1)]

\* Variant: the message names the path that was tried last instead of the
\* command.
External_path ==
  /\ pc = "dispatch"
  /\ ~StrEq(Arg(0), W_exit)
  /\ ~StrEq(Arg(0), W_cd)
  /\ LET res == find_command(Arg(0), home, fs)
     IN  /\ full_path' = res.full_path
         /\ IF res.ret # 0
            THEN /\ trace' = trace \o AccessEvents(res, fs)
                 /\ pc' = "fork"
            ELSE /\ \E ok \in BOOLEAN :
                      trace' = trace \o AccessEvents(res, fs)
                                 \o <<WriteLit("[", Written(ok, 1)),
                                      WriteStr(res.full_path, Written(ok, Len(res.full_path))),
                                      WriteLit("]: Unknown Command\n", Written(ok, 19))>>
                 /\ pc' = "prompt"
  /\ UNCHANGED <<exit_status, input_buffer, line, argc, argv, cwd, home, fs,
                 sigchld_ign, others, child>>

\* mini_bash.c:312 and 375-381.
External ==
  /\ pc = "dispatch"
  /\ ~StrEq(Arg(0), W_exit)
  /\ ~StrEq(Arg(0), W_cd)
  /\ LET res == find_command(Arg(0), home, fs)
     IN  /\ full_path' = res.full_path
         /\ IF res.ret # 0
            THEN /\ trace' = trace \o AccessEvents(res, fs)
                 /\ pc' = "fork"
            ELSE /\ \E ok \in BOOLEAN :
                      trace' = trace \o AccessEvents(res, fs)
                                 \o <<WriteLit("[", Written(ok, 1)),
                                      WriteStr(Arg(0), Written(ok, Len(Arg(0)))),
                                      WriteLit("]: Unknown Command\n", Written(ok, 19))>>
                 /\ pc' = "prompt"
  /\ UNCHANGED <<exit_status, input_buffer, line, argc, argv, cwd, home, fs,
                 sigchld_ign, others, child>>

\* Variant: a failed fork is tried again.
Fork_retry ==
  /\ pc = "fork"
  /\ \E pid \in {-1, 1} :
       IF pid = -1
       THEN /\ trace' = trace \o <<Ev("shell", "fork", "", <<>>, -1),
                                   Ev("shell", "fork", "", <<>>, -1),
                                   Perror("shell", "fork")>>
            /\ pc' = "prompt"
            /\ UNCHANGED child
       ELSE /\ trace' = Append(trace, Ev("shell", "fork", "", <<>>, pid))
            /\ pc' = "wait"
            /\ child' = [st |-> "forked", path |-> full_path,
                         args |-> Tokens(input_buffer, argv, argc),
                         cwd |-> cwd, status |-> 0]
  /\ UNCHANGED <<exit_status, input_buffer, line, argc, argv, full_path, cwd, home, fs,
                 sigchld_ign, others>>

\* Variant: after a failed fork the shell goes on to wait.
Fork_waits ==
  /\ pc = "fork"
  /\ \E pid \in {-1, 1} :
       IF pid = -1
       THEN /\ trace' = trace \o <<Ev("shell", "fork", "", <<>>, -1), Perror("shell", "fork")>>
            /\ pc' = "wait"
            /\ UNCHANGED child
       ELSE /\ trace' = Append(trace, Ev("shell", "fork", "", <<>>, pid))
            /\ pc' = "wait"
            /\ child' = [st |-> "forked", path |-> full_path,
                         args |-> Tokens(input_buffer, argv, argc),
                         cwd |-> cwd, status |-> 0]
  /\ UNCHANGED <<exit_status, input_buffer, line, argc, argv, full_path, cwd, home, fs,
                 sigchld_ign, others>>

\* mini_bash.c:318-324.
Fork ==
  /\ pc = "fork"
  /\ \E pid \in {-1, 1} :
       IF pid = -1
       THEN /\ trace' = trace \o <<Ev("shell", "fork", "", <<>>, -1), Perror("shell", "fork")>>
            /\ pc' = "prompt"
            /\ UNCHANGED child
       ELSE /\ trace' = Append(trace, Ev("shell", "fork", "", <<>>, pid))
            /\ pc' = "wait"
            /\ child' = [st |-> "forked", path |-> full_path,
                         args |-> Tokens(input_buffer, argv, argc),
                         cwd |-> cwd, status |-> 0]
  /\ UNCHANGED <<exit_status, input_buffer, line, argc, argv, full_path, cwd, home, fs,
                 sigchld_ign, others>>

\* A terminated child stays a zombie until it is waited for, unless SIGCHLD
\* is ignored: then the kernel reaps it at once.
Terminated(c, status) ==
  IF sigchld_ign THEN NoChild ELSE [c EXCEPT !.st = "zombie", !.status = status]

\* Variant: without the exit(1) of line 337 the child, after its report,
\* leaves the if statement and goes round the loop of main: it writes the
\* prompt.
ChildExec_resumes ==
  /\ child.st = "forked"
  /\ \E r \in {0, -1} :
       IF r = 0
       THEN /\ trace' = Append(trace, Ev("child", "execv", "", child.path, 0))
            /\ child' = [child EXCEPT !.st = "running"]
       ELSE /\ trace' = trace \o <<Ev("child", "execv", "", child.path, -1),
                                   Perror("child", "execv"),
                                   Ev("child", "write", PROMPT, <<>>, PROMPT_LEN)>>
            /\ child' = [child EXCEPT !.st = "running"]
  /\ UNCHANGED <<pc, exit_status, input_buffer, line, argc, argv, full_path, cwd, home,
                 fs, sigchld_ign, others>>

\* mini_bash.c:333-337, in the child.
ChildExec ==
  /\ child.st = "forked"
  /\ \E r \in {0, -1} :
       IF r = 0
       THEN /\ trace' = Append(trace, Ev("child", "execv", "", child.path, 0))
            /\ child' = [child EXCEPT !.st = "running"]
       ELSE /\ trace' = trace \o <<Ev("child", "execv", "", child.path, -1),
                                   Perror("child", "execv"),
                                   Exit("child", ExitedStatus(1))>>
            /\ child' = Terminated(child, ExitedStatus(1))
  /\ UNCHANGED <<pc, exit_status, input_buffer, line, argc, argv, full_path, cwd, home,
                 fs, sigchld_ign, others>>

\* The program run by the child changes its own working directory.
ChildChdir ==
  /\ child.st = "running"
  /\ \E d \in Directories :
       /\ d # child.cwd
       /\ child' = [child EXCEPT !.cwd = d]
  /\ UNCHANGED <<pc, exit_status, input_buffer, line, argc, argv, full_path, cwd, home,
                 fs, sigchld_ign, others, trace>>

\* The program run by the child exits or is killed by a signal.
ChildTerminate ==
  /\ child.st = "running"
  /\ \E status \in {ExitedStatus(c) : c \in ExitCodes} \cup Signals :
       /\ trace' = Append(trace, Exit("child", status))
       /\ child' = Terminated(child, status)
  /\ UNCHANGED <<pc, exit_status, input_buffer, line, argc, argv, full_path, cwd, home,
                 fs, sigchld_ign, others>>

\* A child other than that of the current command takes a step: the
\* program it was created for is executed or execv fails, or the program
\* it runs terminates.
OtherStep ==
  /\ \E p \in BagToSet(others) :
       /\ p.st \in {"forked", "running"}
       /\ \E q \in {Proc("running", 0, p.own)} \cup
                   {Proc("zombie", status, p.own) :
                      status \in IF p.st = "forked" THEN {ExitedStatus(1)}
                                 ELSE {ExitedStatus(5), 15}} :
            /\ p.st = "running" => q.st = "zombie"
            /\ others' = (others (-) Copies(p, 1))
                           (+) (IF q.st = "zombie" /\ sigchld_ign
                                THEN EmptyBag ELSE Copies(q, 1))
  /\ UNCHANGED <<pc, exit_status, input_buffer, line, argc, argv, full_path, cwd, home,
                 fs, sigchld_ign, child, trace>>

\* Variant: the else of line 368 is missing, so that the abnormal line
\* follows the return code as well.
Wait_both ==
  /\ pc = "wait"
  /\ LET all == Own(child) (+) others
     IN  IF all = EmptyBag
         THEN /\ trace' = trace \o <<Ev("shell", "wait", "", <<>>, -1),
                                     Perror("shell", "wait")>>
              /\ others' = others
         ELSE \E p \in BagToSet(all) :
                /\ p.st = "zombie"
                /\ others' = all (-) Copies(p, 1)
                /\ LET status == p.status
                       code_str == int_to_string(WEXITSTATUS(status))
                   IN  IF WIFEXITED(status)
                       THEN \E ok \in BOOLEAN :
                              trace' = trace \o
                                <<Ev("shell", "wait", "", <<>>, status),
                                  WriteLit("Command completed with return code: ",
                                           Written(ok, 36)),
                                  WriteStr(code_str, Written(ok, Len(code_str))),
                                  WriteStr(<<NL>>, Written(ok, 1)),
                                  WriteLit("Command terminated abnormally\n", Written(ok, 30))>>
                       ELSE \E w \in WriteResults(30) :
                              trace' = trace \o
                                <<Ev("shell", "wait", "", <<>>, status),
                                  WriteLit("Command terminated abnormally\n", w)>>
  /\ child' = NoChild
  /\ pc' = "prompt"
  /\ UNCHANGED <<exit_status, input_buffer, line, argc, argv, full_path, cwd, home, fs,
                 sigchld_ign>>

\* mini_bash.c:347-373.  wait(&status) returns the status of any one child
\* of the process that has terminated; it blocks while the process has
\* children and none has terminated, and fails with ECHILD when the process
\* has no child.  A child of the command that was not the one reaped stays
\* among the children of the process.
Wait ==
  /\ pc = "wait"
  /\ LET all == Own(child) (+) others
     IN  IF all = EmptyBag
         THEN /\ trace' = trace \o <<Ev("shell", "wait", "", <<>>, -1),
                                     Perror("shell", "wait")>>
              /\ others' = others
         ELSE \E p \in BagToSet(all) :
                /\ p.st = "zombie"
                /\ others' = all (-) Copies(p, 1)
                /\ LET status == p.status
                       code_str == int_to_string(WEXITSTATUS(status))
                   IN  IF WIFEXITED(status)
                       THEN \E ok \in BOOLEAN :
                              trace' = trace \o
                                <<Ev("shell", "wait", "", <<>>, status),
                                  WriteLit("Command completed with return code: ",
                                           Written(ok, 36)),
                                  WriteStr(code_str, Written(ok, Len(code_str))),
                                  WriteStr(<<NL>>, Written(ok, 1))>>
                       ELSE \E w \in WriteResults(30) :
                              trace' = trace \o
                                <<Ev("shell", "wait", "", <<>>, status),
                                  WriteLit("Command terminated abnormally\n", w)>>
  /\ child' = NoChild
  /\ pc' = "prompt"
  /\ UNCHANGED <<exit_status, input_buffer, line, argc, argv, full_path, cwd, home, fs,
                 sigchld_ign>>

Next ==
  \/ WritePrompt
  \/ ReadFail
  \/ ReadEof
  \/ ReadLine
  \/ ParseInput
  \/ BuiltinExit
  \/ BuiltinCd
  \/ External
  \/ Fork
  \/ ChildExec
  \/ ChildChdir
  \/ ChildTerminate
  \/ Wait

Spec == Init /\ [][Next]_vars

\* ------------------------------------------------------------------------
\* The shell started by a process that may have children: a program that
\* has created children and then executes mini_bash.  The lines read are
\* commands.
CmdData ==
  {W_a \o <<NL>>, W_ls \o <<NL>>, W_cd \o <<SP>> \o W_a \o <<NL>>, W_exit \o <<NL>>}
ReadCmd == ReadFrom(CmdData)
InitChildren == Start({NoHome, HomeDir}, FsChoices, BOOLEAN, 0..MaxInherited)
NextChildren ==
  \/ WritePrompt
  \/ ReadFail
  \/ ReadEof
  \/ ReadCmd
  \/ ParseInput
  \/ BuiltinExit
  \/ BuiltinCd
  \/ External
  \/ Fork
  \/ ChildExec
  \/ ChildChdir
  \/ ChildTerminate
  \/ Wait
  \/ OtherStep
SpecChildren == InitChildren /\ [][NextChildren]_vars

\* ------------------------------------------------------------------------
\* The shell with long values of HOME, long command names and long lines.
ReadLong == ReadFrom(LongInput)
InitLong == Start({NoHome, HomeDir} \cup LongHomes, LongFsChoices, {FALSE}, {0})
NextLong ==
  \/ WritePrompt
  \/ ReadFail
  \/ ReadEof
  \/ ReadLong
  \/ ParseInput
  \/ BuiltinExit
  \/ BuiltinCd
  \/ External
  \/ Fork
  \/ ChildExec
  \/ ChildChdir
  \/ ChildTerminate
  \/ Wait
SpecLong == InitLong /\ [][NextLong]_vars


\* ========================================================================
\* Properties.

\* The tokens of a line as the specification defines them: the maximal runs
\* of characters that are neither space nor tab, in order.
IsSep(c) == c = SP \/ c = TAB
RunStarts(l) == {i \in 1..Len(l) : ~IsSep(l[i]) /\ (i = 1 \/ IsSep(l[i - 1]))}
NumRuns(l) == Cardinality(RunStarts(l))
\* The last position of the run that starts at i.
RunEnd(l, i) ==
  CHOOSE j \in i..Len(l) :
    /\ (j = Len(l) \/ IsSep(l[j + 1]))
    /\ \A k \in i..j : ~IsSep(l[k])
\* The first position from p on that holds no separator; Len(l)+1 if none.
NextStart(l, p) ==
  CHOOSE i \in p..(Len(l) + 1) :
    /\ \A j \in p..(i - 1) : IsSep(l[j])
    /\ (i = Len(l) + 1 \/ ~IsSep(l[i]))
\* The runs that start at or after p, in order.
RECURSIVE RunsFrom(_, _)
RunsFrom(l, p) ==
  LET s == NextStart(l, p)
  IN  IF s > Len(l) THEN <<>>
      ELSE <<SubSeq(l, s, RunEnd(l, s))>> \o RunsFrom(l, RunEnd(l, s) + 1)
Runs(l) == RunsFrom(l, 1)
\* The first and the second run of a line that has them.
Run1(l) == SubSeq(l, NextStart(l, 1), RunEnd(l, NextStart(l, 1)))
Run2(l) ==
  LET s == NextStart(l, RunEnd(l, NextStart(l, 1)) + 1)
  IN  SubSeq(l, s, RunEnd(l, s))

\* The calls of the current iteration, by caller and kind.
Calls(by, op) == {i \in 1..Len(trace) : trace[i].by = by /\ trace[i].op = op}
Failed(by, op) == {i \in Calls(by, op) : trace[i].r = -1}
Wrote(msg) == {i \in Calls("shell", "write") : trace[i].msg = msg}
PerrorBy(by, prefix) == {i \in Calls(by, "perror") : trace[i].msg = prefix}
N(S) == Cardinality(S)
\* The events of the child of the current command.
ChildEvents == {i \in 1..Len(trace) : trace[i].by = "child"}

\* The line of the current iteration has been through parse_input.
Parsed == line # <<>> /\ pc \notin {"read", "parse"}
\* The line has a first token, and it is w.
FirstIs(w) == NumRuns(line) >= 1 /\ Run1(line) = w
PromptWriteFailed == Len(trace) >= 1 /\ trace[1] = WriteLit(PROMPT, -1)
ReadFailed == Failed("shell", "read") # {}
EofSeen == \E i \in Calls("shell", "read") : trace[i].r = 0
\* The line starts with exit; and it does so within the argument limit.
ExitTyped == Parsed /\ FirstIs(W_exit)
ExitAccepted == ExitTyped /\ NumRuns(line) <= MAX_ARGS - 1
\* Nothing of the shell changes in a step.
ShellStays ==
  /\ pc' = pc
  /\ exit_status' = exit_status
  /\ trace' = trace
  /\ cwd' = cwd
  /\ child' = child

\* ------------------------------------------------------------------------
\* C1, as stated: the shell is Terminated exactly when the first token of
\* the line is exit or read reported end-of-input.
C1_Original ==
  /\ pc = "done" => (ExitTyped \/ EofSeen)
  /\ pc = "prompt" => ~(ExitTyped \/ EofSeen)

\* The shell is Terminated exactly when one of the four causes is on record.
C1_Terminates ==
  /\ pc = "done" => (ExitAccepted \/ EofSeen \/ PromptWriteFailed \/ ReadFailed)
  /\ pc \notin {"done", "dispatch"} => ~(ExitAccepted \/ EofSeen \/ PromptWriteFailed \/ ReadFailed)
  /\ pc = "dispatch" => ~(EofSeen \/ PromptWriteFailed \/ ReadFailed)
\* An accepted exit is followed by termination, and termination by nothing.
C1_Step ==
  /\ (pc = "dispatch" /\ ExitAccepted) => pc' = "done"
  /\ pc = "done" => ShellStays
\* C1, amended: the shell goes from Running to Terminated exactly when the
\* first token of a line of at most MAX_ARGS-1 tokens is exit, when read
\* reports end-of-input, or when the prompt write or the read fails; and
\* Terminated is absorbing: from then on the shell emits no prompt, reads
\* no input, runs no builtin and spawns no process.
C1_Amended == []C1_Terminates /\ [][C1_Step]_vars
\* The shell has terminated on an exit line that carries an argument.
C1_Witness ==
  /\ pc = "done"
  /\ ExitAccepted
  /\ NumRuns(line) = 2

\* ------------------------------------------------------------------------
\* C2, as stated: the shell always exits with status 0.
C2_Original == pc = "done" => exit_status = 0

\* C2, amended: the shell exits with status 0 when it terminates by exit or
\* by end-of-input, whatever commands ran before, and with status 1 when the
\* prompt write or the read fails; no other status occurs, so the exit code
\* of an external command never becomes the shell's own.
C2_Amended ==
  /\ pc # "done" => exit_status = -1
  /\ pc = "done" =>
       /\ exit_status \in {0, 1}
       /\ exit_status = 1 <=> (PromptWriteFailed \/ ReadFailed)
       /\ exit_status = 0 <=> (ExitAccepted \/ EofSeen)
\* The shell has terminated by end-of-input, in a directory it was moved
\* to by an earlier command.
C2_Witness ==
  /\ pc = "done"
  /\ EofSeen
  /\ exit_status = 0
  /\ cwd # StartDir

\* ------------------------------------------------------------------------
\* An operation other than the prompt write and the read has failed.
OtherFailure ==
  \/ \E i \in Failed("shell", "write") : i > 1
  \/ Failed("shell", "chdir") # {}
  \/ Failed("shell", "access") # {}
  \/ Failed("shell", "fork") # {}
  \/ Failed("child", "execv") # {}
  \/ Failed("shell", "wait") # {}
  \/ (Parsed /\ argc = -1)
\* C3: a failed prompt write or a failed read terminates the shell with a
\* nonzero status, nothing being processed after the failed call; and
\* whenever the shell terminates with a nonzero status, one of the two has
\* failed: a failed write of a message, chdir, access, fork, execv or wait
\* does not terminate it.
C3_FatalIO ==
  /\ PromptWriteFailed =>
       /\ pc = "done" /\ exit_status # 0
       /\ trace = <<WriteLit(PROMPT, -1), Perror("shell", "write"), Exit("shell", 1)>>
  /\ ReadFailed =>
       /\ pc = "done" /\ exit_status # 0
       /\ Len(trace) = 4
       /\ SubSeq(trace, 2, 4) = <<Ev("shell", "read", "", <<>>, -1),
                                  Perror("shell", "read"), Exit("shell", 1)>>
  /\ (pc = "done" /\ exit_status # 0) => (PromptWriteFailed \/ ReadFailed)
  /\ (OtherFailure /\ ~EofSeen) => (pc # "done" /\ exit_status = -1)
  /\ (PromptWriteFailed \/ ReadFailed) => child = NoChild
\* The read has failed and the shell is gone with status 1.
C3_Witness ==
  /\ ReadFailed
  /\ pc = "done"
  /\ exit_status = 1

\* ------------------------------------------------------------------------
\* For each kind of error: its report and the failed operation occur once,
\* and the shell is at the top of its loop (or waiting for the child).
C4_Reported ==
  /\ (Parsed /\ argc = -1) =>
       /\ pc = "prompt"
       /\ N(Wrote("Error: Too many arguments\n")) = 1
  /\ (Parsed /\ Calls("shell", "access") # {}
        /\ Failed("shell", "access") = Calls("shell", "access")) =>
       /\ pc = "prompt"
       /\ N(Wrote("[")) = 1 /\ N(Wrote("]: Unknown Command\n")) = 1
       /\ N(Calls("shell", "fork")) = 0
  /\ (Parsed /\ Runs(line) = <<W_cd>> /\ pc # "dispatch") =>
       /\ pc = "prompt"
       /\ N(Wrote("cd: missing argument\n")) = 1
  /\ Failed("shell", "chdir") # {} =>
       /\ pc = "prompt"
       /\ N(Calls("shell", "chdir")) = 1
       /\ N(PerrorBy("shell", "cd")) = 1
  /\ Failed("shell", "fork") # {} =>
       /\ pc = "prompt"
       /\ N(Calls("shell", "fork")) = 1
       /\ N(PerrorBy("shell", "fork")) = 1
       /\ child = NoChild
  /\ Failed("child", "execv") # {} =>
       /\ pc \in {"wait", "prompt"}
       /\ N(Calls("child", "execv")) = 1
       /\ N(PerrorBy("child", "execv")) = 1
       /\ N(Calls("shell", "fork")) = 1
       /\ pc = "prompt" =>
            /\ N(Calls("shell", "wait")) = 1
            /\ N(Wrote("Command completed with return code: "))
                 + N(Wrote("Command terminated abnormally\n"))
                 + N(PerrorBy("shell", "wait")) = 1
  /\ OtherFailure /\ ~EofSeen => exit_status = -1
\* At the top of the loop the next step of the shell writes the prompt.
C4_Step ==
  pc = "prompt" =>
    /\ pc' \in {"read", "done"}
    /\ trace'[1].op = "write" /\ trace'[1].msg = PROMPT
\* C4: each error that is not an I/O error (TooManyArguments,
\* CommandNotFound, MissingCdArgument, ChdirFailed, ForkFailed, ExecFailed)
\* is reported once, the failed operation is made once, and the shell stays
\* Running at the top of its loop, where its next step is the prompt.
C4_ErrorsContinue == []C4_Reported /\ [][C4_Step]_vars
\* The child could not execute the program, and the shell, having waited
\* for it, is back at the top of the loop.
C4_Witness ==
  /\ Failed("child", "execv") # {}
  /\ pc = "prompt"
  /\ N(Calls("shell", "wait")) = 1

\* ------------------------------------------------------------------------
\* C5: for a line of at most MAX_ARGS-1 tokens parse_input returns, in
\* order, exactly the maximal runs of non-separator characters; none is
\* empty, none holds a space or tab; the count is the number of runs and
\* argv ends with NULL.
C5_Tokens ==
  (Parsed /\ NumRuns(line) <= MAX_ARGS - 1) =>
    /\ argc = NumRuns(line)
    /\ Tokens(input_buffer, argv, argc) = Runs(line)
    /\ \A k \in 1..argc :
         LET t == Tokens(input_buffer, argv, argc)[k]
         IN  t # <<>> /\ \A j \in 1..Len(t) : ~IsSep(t[j])
    /\ argv[argc] = NULL
\* "  ls  -la  " has been tokenized into "ls" and "-la".
C5_Witness ==
  /\ Parsed
  /\ line = <<SP, SP>> \o W_ls \o <<SP, SP>> \o W_la \o <<SP, SP>>
  /\ argc = 2
  /\ Tokens(input_buffer, argv, argc) = <<W_ls, W_la>>

\* ------------------------------------------------------------------------
\* C6: parse_input fails exactly on the lines of more than MAX_ARGS-1
\* tokens; after a failure the iteration has written the error message and
\* nothing else after the prompt, has run no builtin and no command, and
\* the shell is at the top of its loop.
C6_TooMany ==
  Parsed =>
    /\ argc = -1 <=> NumRuns(line) > MAX_ARGS - 1
    /\ argc = -1 =>
         /\ pc = "prompt"
         /\ exit_status = -1
         /\ Len(trace) = 3
         /\ trace[3].op = "write" /\ trace[3].msg = "Error: Too many arguments\n"
         /\ N(Calls("shell", "write")) = 2
         /\ child = NoChild
\* A line of exactly MAX_ARGS tokens has been refused.
C6_Witness ==
  /\ Parsed
  /\ NumRuns(line) = MAX_ARGS
  /\ argc = -1
  /\ pc = "prompt"

\* ------------------------------------------------------------------------
\* C7, as stated: whenever the first token of a line is exit the shell
\* terminates, whatever follows, with no further output.
C7_Original ==
  (ExitTyped /\ pc # "dispatch") => (pc = "done" /\ Len(trace) = 2)

\* An accepted exit line leaves nothing but the prompt and the read.
C7_Exits ==
  ExitAccepted =>
    /\ pc \in {"dispatch", "done"}
    /\ Len(trace) = 2
    /\ trace[1].op = "write" /\ trace[2].op = "read"
    /\ child = NoChild
    /\ pc = "done" => exit_status = 0
C7_Step == (pc = "dispatch" /\ ExitAccepted) => (pc' = "done" /\ trace' = trace)
\* C7, amended: whenever the first token of a line of at most MAX_ARGS-1
\* tokens is exactly exit, the shell terminates after that iteration
\* whatever the trailing arguments are, with no output after the prompt.
C7_Amended == []C7_Exits /\ [][C7_Step]_vars
\* The shell has terminated on exit followed by MAX_ARGS-2 arguments.
C7_Witness ==
  /\ ExitAccepted
  /\ NumRuns(line) = MAX_ARGS - 1
  /\ pc = "done"

\* ------------------------------------------------------------------------
\* The line is cd without argument.
CdAlone == Parsed /\ Runs(line) = <<W_cd>>
C8_State ==
  (CdAlone /\ pc # "dispatch") =>
    /\ pc = "prompt"
    /\ Calls("shell", "chdir") = {}
    /\ Len(trace) = 3
    /\ trace[3].op = "write" /\ trace[3].msg = "cd: missing argument\n"
C8_Step == (CdAlone /\ pc = "dispatch") => (cwd' = cwd /\ pc' = "prompt")
\* C8: cd with no argument does not call chdir, leaves the working
\* directory as it is, writes "cd: missing argument" and goes back to the
\* top of the loop.
C8_CdAlone == []C8_State /\ [][C8_Step]_vars
\* cd alone has been handled in a directory other than the initial one.
C8_Witness ==
  /\ CdAlone
  /\ pc = "prompt"
  /\ cwd = W_a
  /\ N(Wrote("cd: missing argument\n")) = 1

\* ------------------------------------------------------------------------
\* The line is cd with an argument.
CdTo == Parsed /\ FirstIs(W_cd) /\ NumRuns(line) \in 2..(MAX_ARGS - 1)
C9_Step ==
  /\ cwd' # cwd =>
       /\ pc = "dispatch" /\ CdTo
       /\ chdir_ok(Run2(line))
       /\ cwd' = Run2(line)
  /\ (pc = "dispatch" /\ CdTo /\ ~chdir_ok(Run2(line))) =>
       /\ cwd' = cwd
       /\ pc' = "prompt"
       /\ trace' = trace \o <<Ev("shell", "chdir", "", Run2(line), -1),
                               Perror("shell", "cd")>>
  /\ (child.st = "none" /\ child'.st = "forked") => child'.cwd = cwd
\* C9: the working directory of the shell changes only in the step of a cd
\* builtin whose chdir succeeds, and becomes its argument; a cd whose chdir
\* fails reports it with perror, leaves the directory and the shell
\* Running; a child starts in the directory of the shell, and nothing it
\* does later changes that of the shell.
C9_CwdOnlyByCd == [][C9_Step]_vars
\* A cd has failed in a directory an earlier cd had entered.
C9_Witness ==
  /\ CdTo
  /\ Failed("shell", "chdir") # {}
  /\ cwd = W_a
  /\ pc = "prompt"

\* ------------------------------------------------------------------------
\* C10: a command is handled as a builtin exactly when its first token is
\* exit or cd; a builtin makes no access call and no fork, whatever the
\* file system holds under its name; any other first token is looked up
\* by find_command and is not handled by chdir or by leaving the loop.
C10_Dispatch ==
  (Parsed /\ argc >= 1 /\ pc # "dispatch") =>
    IF Run1(line) \in {W_exit, W_cd}
    THEN /\ Calls("shell", "access") = {}
         /\ Calls("shell", "fork") = {}
         /\ child = NoChild
         /\ full_path = <<>>
         /\ Run1(line) = W_exit => pc = "done"
         /\ Run1(line) = W_cd =>
              /\ pc = "prompt"
              /\ N(Calls("shell", "chdir")) + N(Wrote("cd: missing argument\n")) = 1
    ELSE /\ Calls("shell", "access") # {}
         /\ Calls("shell", "chdir") = {}
         /\ Wrote("cd: missing argument\n") = {}
         /\ pc # "done"
\* cd has been handled as a builtin although /bin/cd is executable.
C10_Witness ==
  /\ Parsed
  /\ FirstIs(W_cd)
  /\ pc = "prompt"
  /\ access_ok(fs, bin_dir \o W_cd)
  /\ Calls("shell", "access") = {}

\* ------------------------------------------------------------------------
\* The next step of the shell writes the prompt.
NextIsPrompt ==
  pc' # pc => (pc' \in {"read", "done"} /\ trace'[1].op = "write" /\ trace'[1].msg = PROMPT)
\* The first token of the parsed line, and that it is no builtin.
Name == Run1(line)
NotBuiltin == Parsed /\ argc >= 1 /\ Name \notin {W_exit, W_cd}
\* The two candidate locations of the command.
HomeCandidate == home \o Slash \o Name
BinCandidate == bin_dir \o Name
\* Each candidate fits into full_path with its terminating NUL.
Fits ==
  /\ Len(BinCandidate) <= MAX_PATH - 1
  /\ home # NoHome => Len(HomeCandidate) <= MAX_PATH - 1
\* find_command has run and access refused every candidate it was handed.
Unresolved ==
  /\ NotBuiltin
  /\ pc # "dispatch"
  /\ Failed("shell", "access") = Calls("shell", "access")
\* The status lines written in the current iteration.
StatusLines ==
  Wrote("Command completed with return code: ") \cup Wrote("Command terminated abnormally\n")

\* find_command has succeeded with path: it is in full_path, it is the
\* last path handed to access, and the shell goes on to fork.
Found(path) ==
  /\ full_path = path
  /\ pc = "fork" \/ Calls("shell", "fork") # {}
  /\ \E i \in Calls("shell", "access") :
       /\ trace[i].arg = path /\ trace[i].r = 0
       /\ \A j \in Calls("shell", "access") : j <= i
  /\ Wrote("]: Unknown Command\n") = {}
\* The order of find_command, for the commands that satisfy fit.
FirstMatch(fit) ==
  (NotBuiltin /\ pc # "dispatch" /\ fit) =>
    /\ IF home # NoHome /\ HomeCandidate \in fs
       THEN Found(HomeCandidate) /\ N(Calls("shell", "access")) = 1
       ELSE IF BinCandidate \in fs
       THEN Found(BinCandidate)
       ELSE Unresolved /\ N(Wrote("]: Unknown Command\n")) = 1
    /\ \A i \in Calls("shell", "access") : trace[i].r = 0 => trace[i].arg \notin PlainFiles
    /\ N(Calls("shell", "access")) <= 2
\* C11, as stated: the result of find_command is ${HOME}/<command> if HOME
\* is defined and that file is executable, otherwise /bin/<command> if that
\* file is executable, otherwise CommandNotFound.
C11_Original == FirstMatch(TRUE)

\* C11, amended: for a command whose candidate paths fit into MAX_PATH-1
\* characters, the result of find_command is ${HOME}/<command> if HOME is
\* defined and access accepts it, also when /bin/<command> is executable
\* too; otherwise /bin/<command> if access accepts it; otherwise
\* CommandNotFound.  A file that is not executable is never accepted.
C11_Amended == FirstMatch(Fits)
\* "a" is executable under HOME and under /bin, and the copy under HOME has
\* been chosen.
C11_Witness ==
  /\ NotBuiltin
  /\ pc = "fork"
  /\ Name = W_a
  /\ BinCandidate \in fs
  /\ full_path = HomeDir \o Slash \o W_a

\* ------------------------------------------------------------------------
C12_State ==
  /\ Unresolved =>
       LET k == N(Calls("shell", "access"))
       IN  /\ pc = "prompt"
           /\ k = IF home = NoHome THEN 1 ELSE 2
           /\ Len(trace) = k + 5
           /\ \A i \in 3..(k + 2) : trace[i].op = "access"
           /\ trace[k + 3].op = "write" /\ trace[k + 3].msg = "["
           /\ trace[k + 4].op = "write" /\ trace[k + 4].msg = ""
           /\ trace[k + 4].arg = Name
           /\ trace[k + 5].op = "write" /\ trace[k + 5].msg = "]: Unknown Command\n"
           /\ trace[k + 3].r \in WriteResults(1)
           /\ trace[k + 4].r \in WriteResults(Len(Name))
           /\ trace[k + 5].r \in WriteResults(19)
           /\ Calls("shell", "fork") = {}
           /\ Calls("shell", "wait") = {}
           /\ Calls("child", "execv") = {}
           /\ StatusLines = {}
           /\ child = NoChild
  /\ (NotBuiltin /\ pc # "dispatch" /\ Fits
        /\ BinCandidate \notin fs
        /\ (home # NoHome => HomeCandidate \notin fs)) => Unresolved
C12_Step ==
  /\ (pc = "dispatch" /\ pc' # pc /\ NotBuiltin
        /\ find_command(Name, home, fs).ret = 0) =>
       (pc' = "prompt" /\ child' = child /\ others' = others)
  /\ (pc = "prompt" /\ Unresolved) => NextIsPrompt
\* C12: when the first token is no builtin and access refuses both
\* candidate paths, the iteration writes "[", the token and
\* "]: Unknown Command\n" and nothing else after the prompt, makes no fork,
\* no wait and writes no status line, and the next step of the shell is the
\* next prompt.
C12_Unknown == []C12_State /\ [][C12_Step]_vars
\* "a" has been looked up under HOME and under /bin, found at neither, and
\* the message is out.
C12_Witness ==
  /\ Unresolved
  /\ Name = W_a
  /\ home = HomeDir
  /\ N(Calls("shell", "access")) = 2
  /\ N(Wrote("]: Unknown Command\n")) = 1

\* ------------------------------------------------------------------------
\* The command of the current iteration is external: its first token is no
\* builtin and find_command has found it.
Resolved ==
  /\ NotBuiltin
  /\ pc # "dispatch"
  /\ \E i \in Calls("shell", "access") : trace[i].r = 0
\* fork has created a child; wait has returned a status.
Forked == \E i \in Calls("shell", "fork") : trace[i].r # -1
WaitStatus == {i \in Calls("shell", "wait") : trace[i].r # -1}

C13_State ==
  /\ StatusLines # {} => (Resolved /\ pc = "prompt")
  /\ (Resolved /\ pc = "prompt") =>
       /\ N(StatusLines) <= 1
       /\ N(StatusLines) = 1 <=> (Forked /\ WaitStatus # {})
       /\ N(StatusLines) = 0 <=> (Failed("shell", "fork") # {} \/ Failed("shell", "wait") # {})
       /\ N(Calls("shell", "wait")) <= 1
       /\ \A i \in WaitStatus :
            IF WIFEXITED(trace[i].r)
            THEN /\ Len(trace) = i + 3
                 /\ trace[i + 1].msg = "Command completed with return code: "
                 /\ trace[i + 2].op = "write" /\ trace[i + 2].msg = ""
                 /\ trace[i + 3].op = "write" /\ trace[i + 3].arg = <<NL>>
            ELSE /\ Len(trace) = i + 1
                 /\ trace[i + 1].msg = "Command terminated abnormally\n"
C13_Step ==
  /\ (StatusLines = {} /\ StatusLines' # {}) =>
       /\ pc = "wait" /\ pc' = "prompt"
       /\ \E p \in BagToSet(Own(child) (+) others) :
            p.st = "zombie" /\ trace'[Len(trace) + 1].r = p.status
  /\ (pc = "prompt" /\ StatusLines # {}) => NextIsPrompt
Decimal(c) ==
  IF c < 10 THEN <<48 + c>>
  ELSE IF c < 100 THEN <<48 + (c \div 10), 48 + (c % 10)>>
  ELSE <<48 + (c \div 100), 48 + ((c \div 10) % 10), 48 + (c % 10)>>
\* C14, as stated: a status line reports the termination of the child
\* created for the command of this iteration: that child has terminated
\* with the status wait returned; if it exited with code c the line is
\* "Command completed with return code: " and the decimal digits of c, and
\* if it was killed by a signal the line is "Command terminated abnormally".
C14_Original ==
  \A i \in WaitStatus :
    /\ \E j \in ChildEvents : j < i /\ trace[j] = Exit("child", trace[i].r)
    /\ IF WIFEXITED(trace[i].r)
       THEN /\ trace[i + 1].msg = "Command completed with return code: "
            /\ trace[i + 2].arg = Decimal(WEXITSTATUS(trace[i].r))
            /\ WEXITSTATUS(trace[i].r) \in 0..255
       ELSE trace[i + 1].msg = "Command terminated abnormally\n"

\* ------------------------------------------------------------------------
\* The children the shell itself has created and not yet waited for, and
\* those of them that have not terminated.
OwnOthers == {p \in BagToSet(others) : p.own}
NumOwn == BagCardinality(Own(child)) + BagCardinality([p \in OwnOthers |-> others[p]])
LiveOwnOthers == {p \in OwnOthers : p.st \in {"forked", "running"}}
\* C15, as stated: at most one child created by the shell exists, and when
\* the prompt has been emitted no child created by the shell is running.
C15_Original ==
  /\ NumOwn <= 1
  /\ pc = "read" => (LiveOwnOthers = {} /\ child.st = "none")

\* ------------------------------------------------------------------------
C16_State ==
  /\ \A i \in ChildEvents : trace[i].op \in {"execv", "perror", "exit"}
  /\ \A i \in Failed("child", "execv") :
       /\ i + 2 <= Len(trace)
       /\ trace[i + 1] = Perror("child", "execv")
       /\ trace[i + 2].by = "child" /\ trace[i + 2].op = "exit"
       /\ WIFEXITED(trace[i + 2].r) /\ WEXITSTATUS(trace[i + 2].r) # 0
       /\ \A j \in ChildEvents : j <= i + 2
       /\ child.st \in {"zombie", "none"}
  /\ N(Calls("child", "execv")) <= 1
  /\ child.st \in {"forked", "running"} => pc = "wait"
C16_Step ==
  (child.st = "forked" /\ Failed("child", "execv")' # {}) =>
    /\ child'.st \in {"zombie", "none"}
    /\ child'.st = "zombie" => child'.status = ExitedStatus(1)
    /\ pc' = pc
    /\ Len(trace') = Len(trace) + 3
\* C16: when execv fails, the child calls perror and then exit with a
\* nonzero status and does nothing else: every call of the child is execv,
\* perror or exit, it writes no prompt and reads no input, it has
\* terminated in the step in which execv failed, and while a child exists
\* the shell itself is blocked in wait, so the loop is run by the shell
\* only.
C16_ExecFails == []C16_State /\ [][C16_Step]_vars
\* execv has failed; the child is a zombie with exit status 1 and the shell
\* has not yet returned from wait.
C16_Witness ==
  /\ Failed("child", "execv") # {}
  /\ child.st = "zombie"
  /\ WEXITSTATUS(child.status) = 1
  /\ pc = "wait"

\* ------------------------------------------------------------------------
C17_State ==
  Failed("shell", "fork") # {} =>
    /\ pc = "prompt"
    /\ N(Calls("shell", "fork")) = 1
    /\ trace[Len(trace) - 1] = Ev("shell", "fork", "", <<>>, -1)
    /\ trace[Len(trace)] = Perror("shell", "fork")
    /\ N(PerrorBy("shell", "fork")) = 1
    /\ Calls("shell", "wait") = {}
    /\ Calls("child", "execv") = {}
    /\ StatusLines = {}
    /\ child = NoChild
    /\ exit_status = -1
C17_Step ==
  /\ (pc = "fork" /\ pc' = "prompt") =>
       /\ trace' = trace \o <<Ev("shell", "fork", "", <<>>, -1), Perror("shell", "fork")>>
       /\ child' = child /\ others' = others /\ cwd' = cwd
  /\ (pc = "prompt" /\ Failed("shell", "fork") # {}) => NextIsPrompt
\* C17: when fork fails the shell calls perror("fork") and goes to the top
\* of its loop: it creates no child, does not wait, no program is executed,
\* no status line is written, and its next step is the next prompt.
C17_ForkFails == []C17_State /\ [][C17_Step]_vars
\* fork has failed for a command that was found under /bin.
C17_Witness ==
  /\ Failed("shell", "fork") # {}
  /\ pc = "prompt"
  /\ full_path = bin_dir \o W_a
  /\ N(PerrorBy("shell", "fork")) = 1

\* ------------------------------------------------------------------------
\* The read of the current iteration has delivered bytes.
HasRead == Len(trace) >= 2 /\ trace[2].op = "read" /\ trace[2].r > 0
\* C18, as stated: each iteration interprets exactly one line of standard
\* input as one command, however read delivers the input: the string that
\* is tokenized holds no newline, so that the tokens of the command come
\* from a single line, and no token holds a newline.
C18_Original ==
  (HasRead /\ Parsed /\ argc >= 1) =>
    /\ \A i \in 1..Len(line) : line[i] # NL
    /\ \A k \in 1..argc :
         \A j \in 1..Len(Tokens(input_buffer, argv, argc)[k]) :
           Tokens(input_buffer, argv, argc)[k][j] # NL

\* ------------------------------------------------------------------------
\* The last index of an array.
Last(arr) == Cardinality(DOMAIN arr) - 1
\* The candidate full_path was built from.
Candidate == IF Calls("shell", "access") # {} /\ N(Calls("shell", "access")) = 1 /\ home # NoHome
             THEN HomeCandidate ELSE BinCandidate
\* C19: the indices written in input_buffer are below BUFFER_SIZE and the
\* buffer is NUL-terminated; the indices written in argv are below MAX_ARGS
\* and after a successful parse argv[argc] is NULL; the characters of
\* full_path and its terminating NUL are at indices below MAX_PATH: a path
\* that is too long is cut to MAX_PATH-1 characters.
C19_Bounds ==
  /\ DOMAIN input_buffer = 0..Last(input_buffer)
  /\ Last(input_buffer) <= BUFFER_SIZE - 1
  /\ \E i \in DOMAIN input_buffer : input_buffer[i] = NUL
  /\ DOMAIN argv = 0..Last(argv)
  /\ Last(argv) <= MAX_ARGS - 1
  /\ (Parsed /\ argc >= 0) => (argc <= MAX_ARGS - 1 /\ argv[argc] = NULL)
  /\ (Parsed /\ argc = -1) => Last(argv) = MAX_ARGS - 2
  /\ \A k \in DOMAIN argv : argv[k] = NULL \/ argv[k] \in 0..(BUFFER_SIZE - 2)
  /\ Len(full_path) <= MAX_PATH - 1
  /\ \A i \in Calls("shell", "access") : Len(trace[i].arg) <= MAX_PATH - 1
  /\ (NotBuiltin /\ pc # "dispatch") =>
       Len(full_path) = IF Len(Candidate) <= MAX_PATH - 1 THEN Len(Candidate)
                        ELSE MAX_PATH - 1
\* A command too long for the path buffer has been looked up under /bin,
\* and full_path is full.
C19_Witness ==
  /\ NotBuiltin
  /\ pc # "dispatch"
  /\ Len(BinCandidate) > MAX_PATH - 1
  /\ Len(full_path) = MAX_PATH - 1
  /\ full_path = SubSeq(BinCandidate, 1, MAX_PATH - 1)

\* ------------------------------------------------------------------------
\* C20, as stated: whenever find_command succeeds, and whenever a program
\* is executed, the path is the full ${HOME}/<command> or the full
\* /bin/<command>; a candidate that was cut is refused by access.
C20_Original ==
  /\ (NotBuiltin /\ pc = "fork") =>
       \/ full_path = BinCandidate
       \/ home # NoHome /\ full_path = HomeCandidate
  /\ \A i \in Calls("child", "execv") :
       \/ trace[i].arg = BinCandidate
       \/ home # NoHome /\ trace[i].arg = HomeCandidate
  /\ \A i \in Calls("shell", "access") :
       (trace[i].arg # BinCandidate /\ (home = NoHome \/ trace[i].arg # HomeCandidate))
         => trace[i].r = -1


====
